---- MODULE Spec2Model ----
(***************************************************************************)
(* Model of src/main.py, the "AI Hiring Assistant" Streamlit page.         *)
(*                                                                         *)
(* The script runs top to bottom once per user event.  The six            *)
(* st.session_state fields survive between runs; everything else is local *)
(* to one run.  One action of the model is one user event together with   *)
(* the whole script run it triggers, the immediate second run included     *)
(* when the handler ends in st.rerun().                                    *)
(*                                                                         *)
(* Text that the script inspects (tech-stack input, model response,       *)
(* answers) is a sequence of one-character strings, so that split() and   *)
(* strip() are computed as Python computes them.                           *)
(***************************************************************************)
EXTENDS Integers, Sequences, FiniteSets, TLC

VARIABLES
    candidate_info,          \* st.session_state["candidate_info"]
    tech_stack,              \* st.session_state["tech_stack"]
    questions,               \* st.session_state["questions"]
    current_question_index,  \* st.session_state["current_question_index"]
    answers,                 \* st.session_state["answers"]
    chat_history,            \* st.session_state["chat_history"]
    aws_secrets,             \* last run: TRUE iff get_aws_secrets returned a secret
    offered,                 \* last run: the buttons the run rendered
    event,                   \* last event: the button the user clicked, or "none"
    clicked,                 \* last event: the button whose st.button() returned True
    tech_stack_input,        \* last event: text submitted with Submit Tech Stack
    user_answer,             \* last event: text submitted with Submit Answer
    response,                \* last run: the chain's answer text, if it was called
    difficulty,              \* last run: the difficulty label put in the prompt
    progress,                \* last run: <<current_index, total_questions>> shown
    warning,                 \* last run: st.warning was emitted
    raised,                  \* last run: ended in an unhandled exception
    chain_calls              \* history: chain invocations since session initialisation

vars == << candidate_info, tech_stack, questions, current_question_index,
           answers, chat_history, aws_secrets, offered, event, clicked,
           tech_stack_input, user_answer, response, difficulty, progress,
           warning, raised, chain_calls >>

session == << candidate_info, tech_stack, questions, current_question_index,
              answers, chat_history >>

----------------------------------------------------------------------------
(* Bounds of the model *)

MaxLines == 2           \* most lines in a model response
MaxCalls == 2           \* chain invocations explored per session

----------------------------------------------------------------------------
(* Text *)

Whitespace == {" ", "\n", "\t"}
Digits == {"0", "1", "2", "3", "4", "5", "6", "7", "8", "9"}

IsDigit(c) == c \in Digits

SeqsUpTo(alphabet, n) == UNION {[1..k -> alphabet] : k \in 0..n}

RECURSIVE LStrip(_)
LStrip(s) ==
    IF s # <<>> /\ Head(s) \in Whitespace THEN LStrip(Tail(s)) ELSE s

RECURSIVE RStrip(_)
RStrip(s) ==
    IF s # <<>> /\ s[Len(s)] \in Whitespace
    THEN RStrip(SubSeq(s, 1, Len(s) - 1))
    ELSE s

\* str.strip()
Strip(s) == RStrip(LStrip(s))

\* str.split(sep) for a one-character sep: never an empty list
RECURSIVE Split(_, _)
Split(s, sep) ==
    IF \A i \in 1..Len(s) : s[i] # sep
    THEN << s >>
    ELSE LET i == CHOOSE k \in 1..Len(s) :
                      s[k] = sep /\ \A j \in 1..(k - 1) : s[j] # sep
         IN  << SubSeq(s, 1, i - 1) >> \o Split(SubSeq(s, i + 1, Len(s)), sep)

MapStrip(lines) == [i \in 1..Len(lines) |-> Strip(lines[i])]

----------------------------------------------------------------------------
(* Values *)

\* markers, distinct from every text over the alphabets below
NoText == << "none" >>   \* no text was submitted / no response was received
NoProgress == <<>>       \* st.progress was not called
Raise == << "raise" >>   \* the chain call raises

EmptyDict == <<>>

NoLabel == "none"        \* no prompt was built in the run

\* years of experience entered: the values next to the two thresholds of line 160
Experiences == {1, 2, 4, 5}

\* the value the candidate-info form stores
Details ==
    [name : {"Ann"}, email : {"a@b"}, phone : {"1"},
     experience : Experiences, position : {"dev"}]

\* the tech stacks typed: empty, blank, one entry, only a comma, and two
\* comma-separated pieces with whitespace around them
TechInputs ==
    { <<>>, << " " >>, << "a" >>, << "," >>, << " ", "a", ",", " " >> }

\* The lines a model response is made of: blank, a numbered line behind
\* leading whitespace, and two numbered lines (one with trailing whitespace)
LineShapes ==
    { <<>>, << " ", "1" >>, << "1", " " >>, << "2" >> }

RECURSIVE Join(_, _)
Join(lines, sep) ==
    IF Len(lines) = 1
    THEN lines[1]
    ELSE lines[1] \o << sep >> \o Join(Tail(lines), sep)

\* the texts the chain can answer with
Responses ==
    { Join(ls, "\n") : ls \in UNION {[1..k -> LineShapes] : k \in 1..MaxLines} }


\* the answers typed: empty, whitespace only, plain, and padded with whitespace
AnswerInputs ==
    { <<>>, << " ", "\n" >>, << "a" >>, << " ", "b", " " >> }

----------------------------------------------------------------------------
(* The script, stage by stage.  r is the record of the session fields and *)
(* of the run's locals; inp holds what the outside world supplies.         *)

\* lines 111-117
SessionInit(r) ==
    IF ~r.initialised
    THEN [r EXCEPT !.initialised = TRUE,
                   !.chat_history = <<>>,
                   !.candidate_info = EmptyDict,
                   !.tech_stack = <<>>,
                   !.questions = <<>>,
                   !.current_question_index = 0,
                   !.answers = <<>>,
                   !.chain_calls = 0]
    ELSE r

\* mutant: the candidate-info form is rendered whatever the session holds
CandidateInfoForm_Always(r, inp) ==
    LET r1 == [r EXCEPT !.offered = @ \cup {"Submit Details"}]
    IN  IF r.clicked = "Submit Details"
        THEN [r1 EXCEPT !.candidate_info = inp.details,
                        !.handled = "Submit Details"]
        ELSE r1

\* lines 122-133
CandidateInfoForm(r, inp) ==
    IF r.candidate_info = EmptyDict
    THEN LET r1 == [r EXCEPT !.offered = @ \cup {"Submit Details"}]
         IN  IF r.clicked = "Submit Details"
             THEN [r1 EXCEPT !.candidate_info = inp.details,
                             !.handled = "Submit Details"]
             ELSE r1
    ELSE r

\* mutant: empty pieces are dropped
SplitTrim_DropEmpty(input) ==
    SelectSeq(MapStrip(Split(input, ",")), LAMBDA t : t # <<>>)

\* line 150
SplitTrim(input) == MapStrip(Split(input, ","))

\* mutant: the tech-stack form does not wait for the profile
TechStackGate_NoProfile(r) == r.tech_stack = <<>>

\* line 144
TechStackGate(r) == r.candidate_info # EmptyDict /\ r.tech_stack = <<>>

\* lines 144-151
TechStackForm(r, inp) ==
    IF TechStackGate(r)
    THEN LET r1 == [r EXCEPT !.offered = @ \cup {"Submit Tech Stack"}]
         IN  IF r.clicked = "Submit Tech Stack"
             THEN [r1 EXCEPT !.tech_stack = SplitTrim(inp.tech_stack_input),
                             !.tech_stack_input = inp.tech_stack_input,
                             !.handled = "Submit Tech Stack"]
             ELSE r1
    ELSE r

\* line 168, the filter
KeepLine(q) == Strip(q) # <<>> /\ IsDigit(q[1])

\* line 168
ParseQuestions(text) == MapStrip(SelectSeq(Split(text, "\n"), KeepLine))

\* line 158
Experience(info) ==
    IF "experience" \in DOMAIN info THEN info.experience ELSE 0

\* mutant: the thresholds are inclusive
Difficulty_Inclusive(experience) ==
    IF experience <= 2 THEN "beginner"
    ELSE IF experience <= 5 THEN "intermediate"
    ELSE "advanced"

\* line 160
Difficulty(experience) ==
    IF experience < 2 THEN "beginner"
    ELSE IF experience < 5 THEN "intermediate"
    ELSE "advanced"

\* line 156
GenerationGate(r) == r.tech_stack # <<>> /\ r.questions = <<>>

\* lines 156-170; chatbot is defined only under "if aws_secrets" (lines 31-61)
\* mutant: a failed generation discards the tech stack before the error surfaces
QuestionGeneration_RollbackOnRaise(r, inp) ==
    IF GenerationGate(r)
    THEN LET g == [r EXCEPT !.difficulty = Difficulty(Experience(r.candidate_info))]
         IN  IF ~g.aws_secrets
             THEN [g EXCEPT !.raised = TRUE, !.tech_stack = <<>>]
             ELSE IF inp.chain = Raise
                  THEN [g EXCEPT !.raised = TRUE, !.tech_stack = <<>>,
                                 !.chain_calls = @ + 1]
                  ELSE [g EXCEPT !.response = inp.chain,
                                 !.questions = ParseQuestions(inp.chain),
                                 !.current_question_index = 0,
                                 !.chain_calls = @ + 1]
    ELSE r

QuestionGeneration(r, inp) ==
    IF GenerationGate(r)
    THEN LET g == [r EXCEPT !.difficulty = Difficulty(Experience(r.candidate_info))]
         IN  IF ~g.aws_secrets
             THEN [g EXCEPT !.raised = TRUE]
             ELSE IF inp.chain = Raise
                  THEN [g EXCEPT !.raised = TRUE, !.chain_calls = @ + 1]
                  ELSE [g EXCEPT !.response = inp.chain,
                                 !.questions = ParseQuestions(inp.chain),
                                 !.current_question_index = 0,
                                 !.chain_calls = @ + 1]
    ELSE r

\* mutant: the cursor is not advanced
SubmitAnswerHandler_NoAdvance(r, answer) ==
    IF Strip(answer) # <<>>
    THEN [r EXCEPT !.answers = Append(@, answer),
                   !.chat_history =
                       @ \o << <<"Bot", r.questions[r.current_question_index + 1]>>,
                               <<"User", answer>> >>,
                   !.user_answer = answer,
                   !.handled = "Submit Answer",
                   !.rerun = TRUE]
    ELSE [r EXCEPT !.warning = TRUE,
                   !.user_answer = answer,
                   !.handled = "Submit Answer"]

\* mutant: the transcript always quotes the first question
SubmitAnswerHandler_FirstQuestion(r, answer) ==
    IF Strip(answer) # <<>>
    THEN [r EXCEPT !.answers = Append(@, answer),
                   !.chat_history =
                       @ \o << <<"Bot", r.questions[1]>>, <<"User", answer>> >>,
                   !.current_question_index = @ + 1,
                   !.user_answer = answer,
                   !.handled = "Submit Answer",
                   !.rerun = TRUE]
    ELSE [r EXCEPT !.warning = TRUE,
                   !.user_answer = answer,
                   !.handled = "Submit Answer"]

\* mutant: the answer is tested without strip()
SubmitAnswerHandler_NoStrip(r, answer) ==
    IF answer # <<>>
    THEN [r EXCEPT !.answers = Append(@, answer),
                   !.chat_history =
                       @ \o << <<"Bot", r.questions[r.current_question_index + 1]>>,
                               <<"User", answer>> >>,
                   !.current_question_index = @ + 1,
                   !.user_answer = answer,
                   !.handled = "Submit Answer",
                   !.rerun = TRUE]
    ELSE [r EXCEPT !.warning = TRUE,
                   !.user_answer = answer,
                   !.handled = "Submit Answer"]

\* lines 187-195
SubmitAnswerHandler(r, answer) ==
    IF Strip(answer) # <<>>
    THEN [r EXCEPT !.answers = Append(@, answer),
                   !.chat_history =
                       @ \o << <<"Bot", r.questions[r.current_question_index + 1]>>,
                               <<"User", answer>> >>,
                   !.current_question_index = @ + 1,
                   !.user_answer = answer,
                   !.handled = "Submit Answer",
                   !.rerun = TRUE]
    ELSE [r EXCEPT !.warning = TRUE,
                   !.user_answer = answer,
                   !.handled = "Submit Answer"]

\* mutant: the question being shown counts as done
ProgressValue_OffByOne(current_index, total_questions) ==
    IF total_questions # 0
    THEN <<current_index + 1, total_questions>>
    ELSE <<0, 1>>

\* line 176: the fraction current_index / total_questions as <<num, den>>
ProgressValue(current_index, total_questions) ==
    IF total_questions # 0
    THEN <<current_index, total_questions>>
    ELSE <<0, 1>>

\* mutant: the walk is rendered for an empty question list too
WalkGate_Always(r) == TRUE

\* line 172
WalkGate(r) == r.questions # <<>>

\* lines 172-195
QuestionWalk(r, inp) ==
    IF WalkGate(r)
    THEN LET current_index == r.current_question_index
             total_questions == Len(r.questions)
             r1 == [r EXCEPT !.progress =
                        ProgressValue(current_index, total_questions)]
         IN  IF current_index < total_questions
             THEN LET r2 == [r1 EXCEPT !.offered = @ \cup {"Submit Answer"}]
                  IN  IF r.clicked = "Submit Answer"
                      THEN SubmitAnswerHandler(r2, inp.user_answer)
                      ELSE r2
             ELSE r1
    ELSE r

\* lines 197-200
EndInterviewHandler(r) ==
    LET r1 == [r EXCEPT !.offered = @ \cup {"End Interview"}]
    IN  IF r.clicked = "End Interview"
        THEN [r1 EXCEPT !.initialised = FALSE,
                        !.handled = "End Interview",
                        !.rerun = TRUE]
        ELSE r1

\* The value of a one-element set: each stage's result is bound once and
\* handed to the rest of the script.
Only(S) == CHOOSE x \in S : TRUE

\* lines 172-200: the walk, then End Interview unless st.rerun() ended the run
FromQuestionWalk(r2, inp) ==
    Only({ IF r3.rerun THEN r3 ELSE EndInterviewHandler(r3) :
           r3 \in {QuestionWalk(r2, inp)} })

\* lines 156-200: an exception at line 167 ends the run
FromQuestionGeneration(r1, inp) ==
    Only({ IF r2.raised THEN r2 ELSE FromQuestionWalk(r2, inp) :
           r2 \in {QuestionGeneration(r1, inp)} })

\* lines 144-200
FromTechStackForm(r1, inp) ==
    Only({ FromQuestionGeneration(r2, inp) : r2 \in {TechStackForm(r1, inp)} })

\* lines 119-200
FromCandidateInfoForm(r1, inp) ==
    Only({ FromTechStackForm(r2, inp) : r2 \in {CandidateInfoForm(r1, inp)} })

\* one run of the script, lines 1-200
Script(sess, ev, inp) ==
    LET r0 == [candidate_info |-> sess.candidate_info,
               tech_stack |-> sess.tech_stack,
               questions |-> sess.questions,
               current_question_index |-> sess.current_question_index,
               answers |-> sess.answers,
               chat_history |-> sess.chat_history,
               chain_calls |-> sess.chain_calls,
               initialised |-> sess.initialised,
               aws_secrets |-> inp.secrets_ok,
               offered |-> {},
               clicked |-> ev,
               handled |-> "none",
               tech_stack_input |-> NoText,
               user_answer |-> NoText,
               response |-> NoText,
               difficulty |-> NoLabel,
               progress |-> NoProgress,
               warning |-> FALSE,
               raised |-> FALSE,
               rerun |-> FALSE]
    IN  Only({ FromCandidateInfoForm(r1, inp) : r1 \in {SessionInit(r0)} })

\* a user event: the run it triggers and, after st.rerun(), the run that follows
Event(sess, ev, inp) ==
    Only({ IF r.rerun
           THEN Only({ [q EXCEPT !.clicked = ev,
                                 !.handled = r.handled,
                                 !.user_answer = r.user_answer] :
                       q \in { Script(r, "none",
                                      [inp EXCEPT !.secrets_ok = inp.secrets_ok2]) } })
           ELSE r :
           r \in { Script(sess, ev, inp) } })

----------------------------------------------------------------------------
(* State machine *)

Current ==
    [candidate_info |-> candidate_info,
     tech_stack |-> tech_stack,
     questions |-> questions,
     current_question_index |-> current_question_index,
     answers |-> answers,
     chat_history |-> chat_history,
     chain_calls |-> chain_calls,
     initialised |-> TRUE]

\* what the outside world supplies to one event
Input(details, tech, answer, ok, ok2, chain) ==
    [details |-> details, tech_stack_input |-> tech, user_answer |-> answer,
     secrets_ok |-> ok, secrets_ok2 |-> ok2, chain |-> chain]

\* what the chain can do when the run reaches line 167
ChainOutcomes == Responses \cup {Raise}

\* Inputs a run does not read are fixed to these
NoDetails == [unused |-> TRUE]
Unused == << "unused" >>

Becomes(r) ==
    /\ r.chain_calls <= MaxCalls
    /\ candidate_info' = r.candidate_info
    /\ tech_stack' = r.tech_stack
    /\ questions' = r.questions
    /\ current_question_index' = r.current_question_index
    /\ answers' = r.answers
    /\ chat_history' = r.chat_history
    /\ aws_secrets' = r.aws_secrets
    /\ offered' = r.offered
    /\ event' = r.clicked
    /\ clicked' = r.handled
    /\ tech_stack_input' = r.tech_stack_input
    /\ user_answer' = r.user_answer
    /\ response' = r.response
    /\ difficulty' = r.difficulty
    /\ progress' = r.progress
    /\ warning' = r.warning
    /\ raised' = r.raised
    /\ chain_calls' = r.chain_calls

Init ==
    \E ok \in BOOLEAN :
        LET r == Script([candidate_info |-> EmptyDict, tech_stack |-> <<>>,
                         questions |-> <<>>, current_question_index |-> 0,
                         answers |-> <<>>, chat_history |-> <<>>,
                         chain_calls |-> 0, initialised |-> FALSE],
                        "none",
                        Input(NoDetails, Unused, Unused, ok, ok, Unused))
        IN  /\ candidate_info = r.candidate_info
            /\ tech_stack = r.tech_stack
            /\ questions = r.questions
            /\ current_question_index = r.current_question_index
            /\ answers = r.answers
            /\ chat_history = r.chat_history
            /\ aws_secrets = r.aws_secrets
            /\ offered = r.offered
            /\ event = r.clicked
            /\ clicked = r.handled
            /\ tech_stack_input = r.tech_stack_input
            /\ user_answer = r.user_answer
            /\ response = r.response
            /\ difficulty = r.difficulty
            /\ progress = r.progress
            /\ warning = r.warning
            /\ raised = r.raised
            /\ chain_calls = r.chain_calls

\* The chain is read only at line 167: with the secrets fetched (chatbot is
\* defined), behind the gate of line 156, which a run passes only if the gate
\* is open when it starts or the run itself stores the tech stack (line 150).
Chains(ev, ok) ==
    IF /\ ok
       /\ \/ GenerationGate(Current)
          \/ ev = "Submit Tech Stack" /\ TechStackGate(Current)
    THEN ChainOutcomes
    ELSE {Unused}

\* A form's input is read only in a run that renders the form
DetailsRead == IF candidate_info = EmptyDict THEN Details ELSE {NoDetails}

TechRead ==
    IF TechStackGate(Current) THEN TechInputs ELSE {Unused}

AnswerRead ==
    IF questions # <<>> /\ current_question_index < Len(questions)
    THEN AnswerInputs
    ELSE {Unused}

\* The secrets are fetched a second time only in the run after st.rerun()
Refetch(ev, ok) ==
    IF ev \in {"Submit Answer", "End Interview"} THEN BOOLEAN ELSE {ok}

\* the outcomes of the secrets fetches and of the chain call in one event
Outside(ev) ==
    UNION { { <<ok, ok2, ch>> : ok2 \in Refetch(ev, ok), ch \in Chains(ev, ok) }
            : ok \in BOOLEAN }

SubmitDetails ==
    /\ "Submit Details" \in offered
    /\ \E r \in { Event(Current, "Submit Details",
                         Input(d, Unused, Unused, o[1], o[2], o[3])) :
                   d \in DetailsRead, o \in Outside("Submit Details") } :
           Becomes(r)

SubmitTechStack ==
    /\ "Submit Tech Stack" \in offered
    /\ \E r \in { Event(Current, "Submit Tech Stack",
                         Input(NoDetails, t, Unused, o[1], o[2], o[3])) :
                   t \in TechRead, o \in Outside("Submit Tech Stack") } :
           Becomes(r)

SubmitAnswer ==
    /\ "Submit Answer" \in offered
    /\ \E r \in { Event(Current, "Submit Answer",
                         Input(NoDetails, Unused, a, o[1], o[2], o[3])) :
                   a \in AnswerRead, o \in Outside("Submit Answer") } :
           Becomes(r)

EndInterview ==
    /\ "End Interview" \in offered
    /\ \E r \in { Event(Current, "End Interview",
                         Input(NoDetails, Unused, Unused, o[1], o[2], o[3])) :
                   o \in Outside("End Interview") } :
           Becomes(r)

\* a re-run no button started (the framework's Rerun, or an edited input)
Rerun ==
    \E r \in { Event(Current, "none",
                      Input(NoDetails, Unused, Unused, o[1], o[2], o[3])) :
                o \in Outside("none") } :
        Becomes(r)

Next ==
    \/ SubmitDetails
    \/ SubmitTechStack
    \/ SubmitAnswer
    \/ EndInterview
    \/ Rerun

Spec == Init /\ [][Next]_vars

Accepted(a) == Strip(a) # <<>>

\* SubmitAnswer with a text that passes the test of line 187 (the outcome is
\* matched on the fields it is known to set before the run is computed)
AcceptedSubmit ==
    /\ "Submit Answer" \in offered
    /\ \E a \in {x \in AnswerRead : Accepted(x)}, o \in Outside("Submit Answer") :
           /\ user_answer' = a
           /\ clicked' = "Submit Answer"
           /\ aws_secrets' = o[2]
           /\ \E r \in { Event(Current, "Submit Answer",
                                Input(NoDetails, Unused, a, o[1], o[2], o[3])) } :
                  Becomes(r)

\* The walk under the hypothesis that the user keeps submitting non-empty
\* answers for as long as a question is shown; every other event stays free.
LiveSpec == Init /\ [][Next]_vars /\ WF_vars(AcceptedSubmit)

----------------------------------------------------------------------------
(* Mutants and reference definitions used by the properties below are      *)
(* defined next to the definitions they vary.                               *)

InitialSession == << EmptyDict, <<>>, <<>>, 0, <<>>, <<>> >>

Forms == {"Submit Details", "Submit Tech Stack", "Submit Answer"}

\* line 156 was passed in the last run: the chain call was reached
GenerationFired == raised \/ response # NoText

----------------------------------------------------------------------------
(* C1 *)

\* C1: every click on Submit Answer is handled in a state where a question is
\* being shown (cursor < number of questions), and when the answer is
\* non-empty after trimming, exactly one entry (the answer as typed) is
\* appended to answers, exactly two entries are appended to chat history,
\* (Bot, question at the cursor) then (User, answer), the cursor grows by
\* exactly one, and candidate profile, tech stack and question list are
\* unchanged.
C1_SubmitAnswerAppends ==
    [][ event' = "Submit Answer"
        => /\ clicked' = "Submit Answer"
           /\ current_question_index < Len(questions)
           /\ Accepted(user_answer')
              => /\ answers' = Append(answers, user_answer')
                 /\ chat_history' =
                        chat_history
                        \o << <<"Bot", questions[current_question_index + 1]>>,
                              <<"User", user_answer'>> >>
                 /\ current_question_index' = current_question_index + 1
                 /\ UNCHANGED << candidate_info, tech_stack, questions >> ]_vars

\* a second answer has just been accepted, for the second of two different
\* questions
C1_Witness ==
    /\ clicked = "Submit Answer"
    /\ Accepted(user_answer)
    /\ current_question_index = 2
    /\ questions[1] # questions[2]
    /\ Len(chat_history) = 4

----------------------------------------------------------------------------
(* C2 *)

\* C2: whenever Submit Answer is handled with an answer that is empty or only
\* whitespace, cursor, answers and chat history are left exactly as they were
\* and a warning is emitted.
C2_BlankAnswerRejected ==
    [][ (clicked' = "Submit Answer" /\ ~Accepted(user_answer'))
        => /\ UNCHANGED << current_question_index, answers, chat_history >>
           /\ warning' ]_vars

\* a whitespace-only answer has just been rejected after an earlier answer
\* was accepted
C2_Witness ==
    /\ clicked = "Submit Answer"
    /\ user_answer = << " ", "\n" >>
    /\ warning
    /\ current_question_index = 1
    /\ Len(answers) = 1

----------------------------------------------------------------------------
(* C3 *)

\* C3: every click on End Interview, from any reachable state, leaves every
\* session field at its empty initial value and the candidate-info form
\* offered.
C3_EndInterviewResets ==
    event = "End Interview"
    => (session = InitialSession /\ "Submit Details" \in offered)

----------------------------------------------------------------------------
(* C4 *)

\* C4: in every reachable state the last run offered the End Interview
\* control.
C4_EndInterviewAlwaysOffered == "End Interview" \in offered

----------------------------------------------------------------------------
(* C5 *)

\* C5: within one session the conversational chain is never invoked a second
\* time.
C5_ChainInvokedOnce == chain_calls <= 1

----------------------------------------------------------------------------
(* C6 *)

\* C6: the gates are ordered: questions imply a tech stack, a tech stack
\* implies a profile, answers imply questions; the tech-stack form is offered
\* only with a profile present, and the chain call is reached only with a
\* tech stack present.
C6_GatesOrdered ==
    /\ questions # <<>> => tech_stack # <<>>
    /\ tech_stack # <<>> => candidate_info # EmptyDict
    /\ answers # <<>> => questions # <<>>
    /\ "Submit Tech Stack" \in offered => candidate_info # EmptyDict
    /\ GenerationFired => tech_stack # <<>>

\* every gate has been passed: an answer is stored
C6_Witness ==
    /\ answers # <<>>
    /\ questions # <<>>
    /\ tech_stack # <<>>
    /\ candidate_info # EmptyDict

----------------------------------------------------------------------------
(* C7 *)

TrimmedStartsWithDigit(q) == q # <<>> /\ IsDigit(q[1])

\* the lines of text, trimmed, that are non-empty and start with a digit
TrimmedDigitLines(text) ==
    SelectSeq(MapStrip(Split(text, "\n")), TrimmedStartsWithDigit)

\* C7: after the chain has answered, the stored question list is the ordered
\* list of the response's lines, trimmed, that are non-empty after trimming
\* and whose first character after trimming is a digit.
C7_QuestionsAreTrimmedDigitLines ==
    response # NoText => questions = TrimmedDigitLines(response)

----------------------------------------------------------------------------
(* C8 *)

\* C8: after a run whose secrets fetch returned no credentials, no form is
\* offered.
C8_BootstrapFailureHalts ==
    ~aws_secrets => offered \cap Forms = {}

----------------------------------------------------------------------------
(* C9 *)

\* no line of text begins with a digit
NoLineBeginsWithDigit(text) ==
    \A i \in 1..Len(text) :
        IsDigit(text[i]) => (i > 1 /\ text[i - 1] # "\n")

\* C9 as stated: a response with no line beginning with a digit leaves the
\* question list empty, the progress bar at 100% and no question offered.
C9_EmptyListShowsFullProgress ==
    (response # NoText /\ NoLineBeginsWithDigit(response))
    => /\ questions = <<>>
       /\ progress # NoProgress
       /\ progress[1] = progress[2]
       /\ "Submit Answer" \notin offered

\* C9 as amended: a response with no line beginning with a digit leaves the
\* question list empty, no progress bar rendered at all, and no question
\* offered to answer.
C9_EmptyListShowsNoProgress ==
    (response # NoText /\ NoLineBeginsWithDigit(response))
    => /\ questions = <<>>
       /\ progress = NoProgress
       /\ "Submit Answer" \notin offered

\* the chain has just answered with a numbered line behind leading whitespace
\* only
C9_Witness ==
    /\ response = << " ", "1" >>
    /\ questions = <<>>
    /\ "End Interview" \in offered

----------------------------------------------------------------------------
(* C10 *)

CommaPositions(input) == {k \in 1..Len(input) : input[k] = ","}

\* where the i-th comma-separated piece of input starts and ends
PieceStart(input, i) ==
    IF i = 1
    THEN 1
    ELSE 1 + CHOOSE k \in CommaPositions(input) :
                 Cardinality({j \in CommaPositions(input) : j < k}) = i - 2

PieceEnd(input, i) ==
    IF i = Cardinality(CommaPositions(input)) + 1
    THEN Len(input)
    ELSE (CHOOSE k \in CommaPositions(input) :
              Cardinality({j \in CommaPositions(input) : j < k}) = i - 1) - 1

\* C10: when Submit Tech Stack is handled, the stored tech stack has one
\* entry per comma-separated piece of the input (so at least one), entry i
\* being piece i trimmed; an empty input stores the one-element list holding
\* the empty string; and the same run passes the gate of question generation.
C10_TechStackPieces ==
    clicked = "Submit Tech Stack"
    => /\ Len(tech_stack) = Cardinality(CommaPositions(tech_stack_input)) + 1
       /\ \A i \in 1..Len(tech_stack) :
              tech_stack[i] =
                  Strip(SubSeq(tech_stack_input,
                               PieceStart(tech_stack_input, i),
                               PieceEnd(tech_stack_input, i)))
       /\ (tech_stack_input = <<>> => tech_stack = << <<>> >>)
       /\ GenerationFired

\* an empty tech stack was submitted and the chain answered in the same run
C10_Witness ==
    /\ clicked = "Submit Tech Stack"
    /\ tech_stack_input = <<>>
    /\ tech_stack = << <<>> >>
    /\ response # NoText

----------------------------------------------------------------------------
(* C11 *)

\* C11: once a profile is stored, every event whose End Interview handler did
\* not run leaves it as it is and its run does not render the candidate-info
\* form; once a tech stack is stored, every such event leaves it as it is
\* and its run does not render the tech-stack form.
C11_ProfileAndStackFrozen ==
    [][ clicked' # "End Interview"
        => /\ candidate_info # EmptyDict
              => /\ candidate_info' = candidate_info
                 /\ "Submit Details" \notin offered'
           /\ tech_stack # <<>>
              => /\ tech_stack' = tech_stack
                 /\ "Submit Tech Stack" \notin offered' ]_vars

\* with profile and tech stack stored, the tech-stack button left on the page
\* by the run that stored the stack was clicked again, and no handler ran
C11_Witness ==
    /\ candidate_info # EmptyDict
    /\ tech_stack # <<>>
    /\ event = "Submit Tech Stack"
    /\ clicked = "none"
    /\ ~raised

----------------------------------------------------------------------------
(* C12 *)

\* the last run completed with the tech stack stored: question generation
\* has answered
Generated == tech_stack # <<>> /\ ~raised

\* C12: the cursor stays within 0..number of questions; an event whose End
\* Interview handler did not run never decreases it; and once generation has
\* answered and the cursor equals the number of questions, no answer can be
\* submitted and only End Interview changes the session state.
C12_CursorBoundedAndFinal ==
    /\ [](current_question_index \in 0..Len(questions))
    /\ [][ clicked' # "End Interview"
           => /\ current_question_index' >= current_question_index
              /\ (Generated /\ current_question_index = Len(questions))
                 => /\ "Submit Answer" \notin offered
                    /\ session' = session ]_vars

----------------------------------------------------------------------------
(* C13 *)

\* C13: whenever a run passes the generation gate it builds the prompt with a
\* label that, for the experience e stored in the profile, is beginner iff
\* e < 2, intermediate iff 2 <= e < 5, and advanced iff e >= 5.
C13_DifficultyThresholds ==
    /\ GenerationFired => difficulty # NoLabel
    /\ difficulty # NoLabel
       => LET e == candidate_info.experience
          IN  /\ difficulty \in {"beginner", "intermediate", "advanced"}
              /\ difficulty = "beginner" <=> e < 2
              /\ difficulty = "intermediate" <=> (2 <= e /\ e < 5)
              /\ difficulty = "advanced" <=> e >= 5

\* a prompt was built for a candidate right at the lower threshold
C13_Witness ==
    /\ difficulty = "intermediate"
    /\ candidate_info.experience = 2
    /\ response # NoText

----------------------------------------------------------------------------
(* C14 *)

\* the fraction p = <<num, den>> equals n / d
FractionIs(p, n, d) == p[2] > 0 /\ p[1] * d = n * p[2]

\* C14: a run shows a progress value exactly when the question list is not
\* empty, and the value shown equals cursor / total_questions when
\* total_questions > 0 and 0 otherwise; it is 0 while no answer is stored and
\* exactly 1 once the cursor equals the number of questions.
C14_ProgressValue ==
    /\ progress # NoProgress <=> questions # <<>>
    /\ progress # NoProgress
       => /\ IF Len(questions) > 0
             THEN FractionIs(progress, current_question_index, Len(questions))
             ELSE FractionIs(progress, 0, 1)
          /\ answers = <<>> => FractionIs(progress, 0, 1)
          /\ current_question_index = Len(questions) => FractionIs(progress, 1, 1)

\* the last of two questions has just been answered and the bar is full
C14_Witness ==
    /\ clicked = "Submit Answer"
    /\ Len(questions) = 2
    /\ current_question_index = 2
    /\ progress = <<2, 2>>

----------------------------------------------------------------------------
(* C15 *)

\* C15: in every reachable state the number of answers equals the cursor, the
\* chat history has 2 * cursor entries, and for every i < cursor entry 2i is
\* (Bot, questions[i]) and entry 2i+1 is (User, answers[i]) (counting from 0).
C15_TranscriptShape ==
    /\ Len(answers) = current_question_index
    /\ Len(chat_history) = 2 * current_question_index
    /\ current_question_index <= Len(questions)
    /\ \A i \in 1..current_question_index :
          /\ chat_history[2 * i - 1] = <<"Bot", questions[i]>>
          /\ chat_history[2 * i] = <<"User", answers[i]>>

\* two different questions have been answered with two different answers
C15_Witness ==
    /\ current_question_index = 2
    /\ questions[1] # questions[2]
    /\ answers[1] # answers[2]
    /\ Len(chat_history) = 4

----------------------------------------------------------------------------
(* C16 *)

----------------------------------------------------------------------------
(* C17 *)

\* C17: from any state with a non-empty question list, a user who keeps
\* submitting non-empty answers and never clicks End Interview reaches
\* cursor = number of questions; on the way the list does not change, every
\* accepted submission adds exactly 1 to the cursor and every other re-run
\* (an empty submission included) leaves it alone, so exactly
\* (number of questions - cursor) accepted submissions are needed.
C17_WalkTerminates ==
    /\ [][ (questions # <<>> /\ event' # "End Interview")
           => /\ questions' = questions
              /\ IF clicked' = "Submit Answer" /\ Accepted(user_answer')
                 THEN /\ current_question_index' = current_question_index + 1
                      /\ current_question_index' <= Len(questions)
                 ELSE current_question_index' = current_question_index ]_vars
    /\ (questions # <<>>)
          ~> \/ questions # <<>> /\ current_question_index = Len(questions)
             \/ event = "End Interview"

\* the last of two questions has just been answered
C17_Witness ==
    /\ event = "Submit Answer"
    /\ Accepted(user_answer)
    /\ Len(questions) = 2
    /\ Len(answers) = 2
    /\ "Submit Answer" \notin offered

====
